---- MODULE Spec2Model ----
(***************************************************************************)
(* simpleperf/perf_regs.cpp: architecture registry, register name          *)
(* resolver and the RegSet decoder of a kernel register dump.              *)
(*                                                                         *)
(* A 64-bit register mask is modelled as the set of its set bit indices    *)
(* (a subset of 0..63): (mask >> i) & 1 is i \in mask, 1ULL << i is {i},   *)
(* (1ULL << n) - 1 is 0..n-1, & is \cap and & ~ is set difference.         *)
(* A std::string is modelled as the sequence of its characters.            *)
(***************************************************************************)
EXTENDS Integers, Sequences, FiniteSets, TLC

VARIABLES current_arch, regsets, samples, op, args, ret, out, aborted

vars == <<current_arch, regsets, samples, op, args, ret, out, aborted>>

(* ------------------------------ bounds --------------------------------- *)

\* Longest suffix appended to a name prefix to form a GetArchType input.
MaxSuffix == 2
\* Largest ABI tag passed to GetArchForAbi.
MaxAbi == 3
\* Largest register number passed to GetRegName.
MaxRegName == 40
\* Largest register number passed to RegSet::GetRegValue.
MaxRegno == 64
\* Largest number of registers present in a sample's valid_mask.
MaxRegs == 2
\* Largest register value in a sample's packed array (values are 1..MaxVal).
MaxVal == 2

(* ----------------------- constants of the headers ---------------------- *)

PERF_SAMPLE_REGS_ABI_NONE == 0
PERF_SAMPLE_REGS_ABI_32 == 1
PERF_SAMPLE_REGS_ABI_64 == 2

PERF_REG_X86_AX == 0
PERF_REG_X86_BX == 1
PERF_REG_X86_CX == 2
PERF_REG_X86_DX == 3
PERF_REG_X86_SI == 4
PERF_REG_X86_DI == 5
PERF_REG_X86_BP == 6
PERF_REG_X86_SP == 7
PERF_REG_X86_IP == 8
PERF_REG_X86_FLAGS == 9
PERF_REG_X86_CS == 10
PERF_REG_X86_SS == 11
PERF_REG_X86_DS == 12
PERF_REG_X86_ES == 13
PERF_REG_X86_FS == 14
PERF_REG_X86_GS == 15
PERF_REG_X86_R8 == 16
PERF_REG_X86_R15 == 23
PERF_REG_X86_32_MAX == 16
PERF_REG_X86_64_MAX == 24

PERF_REG_ARM_R0 == 0
PERF_REG_ARM_R10 == 10
PERF_REG_ARM_FP == 11
PERF_REG_ARM_IP == 12
PERF_REG_ARM_SP == 13
PERF_REG_ARM_LR == 14
PERF_REG_ARM_PC == 15
PERF_REG_ARM_MAX == 16

PERF_REG_ARM64_X0 == 0
PERF_REG_ARM64_X29 == 29
PERF_REG_ARM64_LR == 30
PERF_REG_ARM64_SP == 31
PERF_REG_ARM64_PC == 32
PERF_REG_ARM64_MAX == 33

PERF_REG_RISCV_PC == 0
PERF_REG_RISCV_RA == 1
PERF_REG_RISCV_SP == 2
PERF_REG_RISCV_GP == 3
PERF_REG_RISCV_TP == 4
PERF_REG_RISCV_T0 == 5
PERF_REG_RISCV_T1 == 6
PERF_REG_RISCV_T2 == 7
PERF_REG_RISCV_S0 == 8
PERF_REG_RISCV_S1 == 9
PERF_REG_RISCV_A0 == 10
PERF_REG_RISCV_A1 == 11
PERF_REG_RISCV_A2 == 12
PERF_REG_RISCV_A3 == 13
PERF_REG_RISCV_A4 == 14
PERF_REG_RISCV_A5 == 15
PERF_REG_RISCV_A6 == 16
PERF_REG_RISCV_A7 == 17
PERF_REG_RISCV_S2 == 18
PERF_REG_RISCV_S3 == 19
PERF_REG_RISCV_S4 == 20
PERF_REG_RISCV_S5 == 21
PERF_REG_RISCV_S6 == 22
PERF_REG_RISCV_S7 == 23
PERF_REG_RISCV_S8 == 24
PERF_REG_RISCV_S9 == 25
PERF_REG_RISCV_S10 == 26
PERF_REG_RISCV_S11 == 27
PERF_REG_RISCV_T3 == 28
PERF_REG_RISCV_T4 == 29
PERF_REG_RISCV_T5 == 30
PERF_REG_RISCV_T6 == 31
PERF_REG_RISCV_MAX == 32

(* ------------------------------ ArchType ------------------------------- *)

ARCH_X86_32 == "ARCH_X86_32"
ARCH_X86_64 == "ARCH_X86_64"
ARCH_ARM == "ARCH_ARM"
ARCH_ARM64 == "ARCH_ARM64"
ARCH_RISCV64 == "ARCH_RISCV64"
ARCH_UNSUPPORTED == "ARCH_UNSUPPORTED"

ArchType ==
    {ARCH_X86_32, ARCH_X86_64, ARCH_ARM, ARCH_ARM64, ARCH_RISCV64, ARCH_UNSUPPORTED}

(* ------------------------------ strings -------------------------------- *)

\* The terminating character std::string::operator[] yields at index size().
NUL == "\\0"

\* arch[i] with the 0-based index of the code; i = size() reads the terminator.
CharAt(s, i) == IF i < Len(s) THEN s[i + 1] ELSE NUL

\* &arch[i]: the C string that starts at 0-based index i.
CStrFrom(s, i) == IF i < Len(s) THEN SubSeq(s, i + 1, Len(s)) ELSE <<>>

\* android::base::StartsWith(s, prefix).
StartsWith(s, prefix) ==
    /\ Len(s) >= Len(prefix)
    /\ SubSeq(s, 1, Len(prefix)) = prefix

DigitVal ==
    ("0" :> 0) @@ ("1" :> 1) @@ ("2" :> 2) @@ ("3" :> 3) @@ ("4" :> 4) @@
    ("5" :> 5) @@ ("6" :> 6) @@ ("7" :> 7) @@ ("8" :> 8) @@ ("9" :> 9)

isdigit(c) == c \in DOMAIN DigitVal

isspace(c) == c \in {" ", "\t", "\n"}

RECURSIVE SkipSpace(_)
SkipSpace(s) ==
    IF s # <<>> /\ isspace(Head(s)) THEN SkipSpace(Tail(s)) ELSE s

RECURSIVE AccDigits(_, _)
AccDigits(s, acc) ==
    IF s # <<>> /\ isdigit(Head(s))
    THEN AccDigits(Tail(s), acc * 10 + DigitVal[Head(s)])
    ELSE acc

\* atoi: leading white space, an optional sign, then the leading digits.
atoi(s) ==
    LET t == SkipSpace(s)
    IN  IF t # <<>> /\ Head(t) = "-" THEN 0 - AccDigits(Tail(t), 0)
        ELSE IF t # <<>> /\ Head(t) = "+" THEN AccDigits(Tail(t), 0)
        ELSE AccDigits(t, 0)

DigitChar == <<"0", "1", "2", "3", "4", "5", "6", "7", "8", "9">>

\* The %d conversion of a non-negative int.
RECURSIVE DecStr(_)
DecStr(n) ==
    IF n < 10 THEN DigitChar[n + 1]
    ELSE DecStr(n \div 10) \o DigitChar[(n % 10) + 1]

\* android::base::StringPrintf("r%d", n).
StringPrintf_r(n) == "r" \o DecStr(n)

(* -------------------------- GetArchType -------------------------------- *)

GetArchType_gt8(arch) ==
    IF arch = <<"x", "8", "6">> \/ arch = <<"i", "6", "8", "6">> THEN ARCH_X86_32
    ELSE IF arch = <<"x", "8", "6", "_", "6", "4">> THEN ARCH_X86_64
    ELSE IF arch = <<"r", "i", "s", "c", "v", "6", "4">> THEN ARCH_RISCV64
    ELSE IF arch = <<"a", "a", "r", "c", "h", "6", "4">> THEN ARCH_ARM64
    ELSE IF StartsWith(arch, <<"a", "r", "m">>)
         THEN IF CharAt(arch, 3) = "v" /\ atoi(CStrFrom(arch, 4)) > 8
              THEN ARCH_ARM64
              ELSE ARCH_ARM
    ELSE ARCH_UNSUPPORTED

GetArchType(arch) ==
    IF arch = <<"x", "8", "6">> \/ arch = <<"i", "6", "8", "6">> THEN ARCH_X86_32
    ELSE IF arch = <<"x", "8", "6", "_", "6", "4">> THEN ARCH_X86_64
    ELSE IF arch = <<"r", "i", "s", "c", "v", "6", "4">> THEN ARCH_RISCV64
    ELSE IF arch = <<"a", "a", "r", "c", "h", "6", "4">> THEN ARCH_ARM64
    ELSE IF StartsWith(arch, <<"a", "r", "m">>)
         THEN IF CharAt(arch, 3) = "v" /\ atoi(CStrFrom(arch, 4)) >= 8
              THEN ARCH_ARM64
              ELSE ARCH_ARM
    ELSE ARCH_UNSUPPORTED

(* -------------------------- GetArchForAbi ------------------------------ *)

GetArchForAbi_no64(machine_arch, abi) ==
    IF abi = PERF_SAMPLE_REGS_ABI_32
    THEN IF machine_arch = ARCH_X86_64 THEN ARCH_X86_32
         ELSE IF machine_arch = ARCH_ARM64 THEN ARCH_ARM
         ELSE machine_arch
    ELSE machine_arch

GetArchForAbi(machine_arch, abi) ==
    IF abi = PERF_SAMPLE_REGS_ABI_32
    THEN IF machine_arch = ARCH_X86_64 THEN ARCH_X86_32
         ELSE IF machine_arch = ARCH_ARM64 THEN ARCH_ARM
         ELSE machine_arch
    ELSE IF abi = PERF_SAMPLE_REGS_ABI_64
    THEN IF machine_arch = ARCH_X86_32 THEN ARCH_X86_64
         ELSE IF machine_arch = ARCH_ARM THEN ARCH_ARM64
         ELSE machine_arch
    ELSE machine_arch

(* ------------------------ GetSupportedRegMask -------------------------- *)

\* 1ULL << i
Bit(i) == {i}

\* (1ULL << n) - 1
LowBits(n) == 0 .. (n - 1)

GetSupportedRegMask_keepGS(arch) ==
    CASE arch = ARCH_X86_32 ->
            (((LowBits(PERF_REG_X86_32_MAX) \ Bit(PERF_REG_X86_DS))
                \ Bit(PERF_REG_X86_ES)) \ Bit(PERF_REG_X86_FS))
      [] arch = ARCH_X86_64 ->
            (((LowBits(PERF_REG_X86_64_MAX) \ Bit(PERF_REG_X86_DS))
                \ Bit(PERF_REG_X86_ES)) \ Bit(PERF_REG_X86_FS))
      [] arch = ARCH_ARM -> LowBits(PERF_REG_ARM_MAX)
      [] arch = ARCH_ARM64 -> LowBits(PERF_REG_ARM64_MAX)
      [] arch = ARCH_RISCV64 -> LowBits(PERF_REG_RISCV_MAX)
      [] OTHER -> {}

GetSupportedRegMask(arch) ==
    CASE arch = ARCH_X86_32 ->
            ((((LowBits(PERF_REG_X86_32_MAX) \ Bit(PERF_REG_X86_DS))
                \ Bit(PERF_REG_X86_ES)) \ Bit(PERF_REG_X86_FS)) \ Bit(PERF_REG_X86_GS))
      [] arch = ARCH_X86_64 ->
            ((((LowBits(PERF_REG_X86_64_MAX) \ Bit(PERF_REG_X86_DS))
                \ Bit(PERF_REG_X86_ES)) \ Bit(PERF_REG_X86_FS)) \ Bit(PERF_REG_X86_GS))
      [] arch = ARCH_ARM -> LowBits(PERF_REG_ARM_MAX)
      [] arch = ARCH_ARM64 -> LowBits(PERF_REG_ARM64_MAX)
      [] arch = ARCH_RISCV64 -> LowBits(PERF_REG_RISCV_MAX)
      [] OTHER -> {}

(* ----------------------------- GetRegName ------------------------------ *)

x86_reg_map ==
    (PERF_REG_X86_AX :> "ax") @@ (PERF_REG_X86_BX :> "bx") @@ (PERF_REG_X86_CX :> "cx") @@
    (PERF_REG_X86_DX :> "dx") @@ (PERF_REG_X86_SI :> "si") @@ (PERF_REG_X86_DI :> "di") @@
    (PERF_REG_X86_BP :> "bp") @@ (PERF_REG_X86_SP :> "sp") @@ (PERF_REG_X86_IP :> "ip") @@
    (PERF_REG_X86_FLAGS :> "flags") @@ (PERF_REG_X86_CS :> "cs") @@
    (PERF_REG_X86_SS :> "ss") @@ (PERF_REG_X86_DS :> "ds") @@ (PERF_REG_X86_ES :> "es") @@
    (PERF_REG_X86_FS :> "fs") @@ (PERF_REG_X86_GS :> "gs")

arm_reg_map ==
    (PERF_REG_ARM_FP :> "fp") @@ (PERF_REG_ARM_IP :> "ip") @@ (PERF_REG_ARM_SP :> "sp") @@
    (PERF_REG_ARM_LR :> "lr") @@ (PERF_REG_ARM_PC :> "pc")

arm64_reg_map ==
    (PERF_REG_ARM64_LR :> "lr") @@ (PERF_REG_ARM64_SP :> "sp") @@ (PERF_REG_ARM64_PC :> "pc")

riscv64_reg_map ==
    (PERF_REG_RISCV_PC :> "pc") @@ (PERF_REG_RISCV_RA :> "ra") @@ (PERF_REG_RISCV_SP :> "sp") @@
    (PERF_REG_RISCV_GP :> "gp") @@ (PERF_REG_RISCV_TP :> "tp") @@ (PERF_REG_RISCV_T0 :> "t0") @@
    (PERF_REG_RISCV_T1 :> "t1") @@ (PERF_REG_RISCV_T2 :> "t2") @@ (PERF_REG_RISCV_S0 :> "s0") @@
    (PERF_REG_RISCV_S1 :> "s1") @@ (PERF_REG_RISCV_A0 :> "a0") @@ (PERF_REG_RISCV_A1 :> "a1") @@
    (PERF_REG_RISCV_A2 :> "a2") @@ (PERF_REG_RISCV_A3 :> "a3") @@ (PERF_REG_RISCV_A4 :> "a4") @@
    (PERF_REG_RISCV_A5 :> "a5") @@ (PERF_REG_RISCV_A6 :> "a6") @@ (PERF_REG_RISCV_A7 :> "a7") @@
    (PERF_REG_RISCV_S2 :> "s2") @@ (PERF_REG_RISCV_S3 :> "s3") @@ (PERF_REG_RISCV_S4 :> "s4") @@
    (PERF_REG_RISCV_S5 :> "s5") @@ (PERF_REG_RISCV_S6 :> "s6") @@ (PERF_REG_RISCV_S7 :> "s7") @@
    (PERF_REG_RISCV_S8 :> "s8") @@ (PERF_REG_RISCV_S9 :> "s9") @@ (PERF_REG_RISCV_S10 :> "s10") @@
    (PERF_REG_RISCV_S11 :> "s11") @@ (PERF_REG_RISCV_T3 :> "t3") @@ (PERF_REG_RISCV_T4 :> "t4") @@
    (PERF_REG_RISCV_T5 :> "t5") @@ (PERF_REG_RISCV_T6 :> "t6")

\* A normal return of a name, and a failed CHECK (LOG(FATAL): the process aborts).
Returned(name) == [fatal |-> FALSE, name |-> name]
CheckFailed == [fatal |-> TRUE, name |-> ""]

\* case ARCH_X86_32 (and the fall-through of case ARCH_X86_64).
GetRegName_X86_32(reg) ==
    IF reg \in DOMAIN x86_reg_map THEN Returned(x86_reg_map[reg]) ELSE CheckFailed

GetRegName_X86_64_from0(reg) ==
    IF reg >= PERF_REG_X86_R8 /\ reg <= PERF_REG_X86_R15
    THEN Returned(StringPrintf_r(reg - PERF_REG_X86_R8))
    ELSE GetRegName_X86_32(reg)

\* case ARCH_X86_64.
GetRegName_X86_64(reg) ==
    IF reg >= PERF_REG_X86_R8 /\ reg <= PERF_REG_X86_R15
    THEN Returned(StringPrintf_r(reg - PERF_REG_X86_R8 + 8))
    ELSE GetRegName_X86_32(reg)

\* case ARCH_ARM64 (and the fall-through of case ARCH_ARM).
GetRegName_ARM64(reg) ==
    IF reg >= PERF_REG_ARM64_X0 /\ reg <= PERF_REG_ARM64_X29
    THEN Returned(StringPrintf_r(reg - PERF_REG_ARM64_X0))
    ELSE IF reg \in DOMAIN arm64_reg_map THEN Returned(arm64_reg_map[reg])
    ELSE CheckFailed

GetRegName_ARM_unknown(reg) ==
    IF reg >= PERF_REG_ARM_R0 /\ reg <= PERF_REG_ARM_R10
    THEN Returned(StringPrintf_r(reg - PERF_REG_ARM_R0))
    ELSE IF reg \in DOMAIN arm_reg_map THEN Returned(arm_reg_map[reg])
    ELSE Returned("unknown")

\* case ARCH_ARM.
GetRegName_ARM(reg) ==
    IF reg >= PERF_REG_ARM_R0 /\ reg <= PERF_REG_ARM_R10
    THEN Returned(StringPrintf_r(reg - PERF_REG_ARM_R0))
    ELSE IF reg \in DOMAIN arm_reg_map THEN Returned(arm_reg_map[reg])
    ELSE GetRegName_ARM64(reg)

\* case ARCH_RISCV64.
GetRegName_RISCV64(reg) ==
    IF reg \in DOMAIN riscv64_reg_map THEN Returned(riscv64_reg_map[reg]) ELSE CheckFailed

\* regno is below 2^31 here, so static_cast<int>(regno) keeps its value.
GetRegName(regno, arch) ==
    LET reg == regno
    IN  CASE arch = ARCH_X86_64 -> GetRegName_X86_64(reg)
          [] arch = ARCH_X86_32 -> GetRegName_X86_32(reg)
          [] arch = ARCH_ARM -> GetRegName_ARM(reg)
          [] arch = ARCH_ARM64 -> GetRegName_ARM64(reg)
          [] arch = ARCH_RISCV64 -> GetRegName_RISCV64(reg)
          [] OTHER -> Returned("unknown")

(* ------------------------------- RegSet -------------------------------- *)

\* memset(data, 0, sizeof(data)) over uint64_t data[64].
ZeroData == [i \in 0 .. 63 |-> 0]

RECURSIVE ExpandFrom_noadvance(_, _, _, _, _)
ExpandFrom_noadvance(data, i, j, valid_mask, valid_regs) ==
    IF i >= 64 THEN data
    ELSE IF i \in valid_mask
         THEN ExpandFrom_noadvance([data EXCEPT ![i] = valid_regs[j + 1]], i + 1, j,
                                   valid_mask, valid_regs)
         ELSE ExpandFrom_noadvance(data, i + 1, j, valid_mask, valid_regs)

\* The loop of the constructor from index i on, j entries of valid_regs consumed.
RECURSIVE ExpandFrom(_, _, _, _, _)
ExpandFrom(data, i, j, valid_mask, valid_regs) ==
    IF i >= 64 THEN data
    ELSE IF i \in valid_mask
         THEN ExpandFrom([data EXCEPT ![i] = valid_regs[j + 1]], i + 1, j + 1,
                         valid_mask, valid_regs)
         ELSE ExpandFrom(data, i + 1, j, valid_mask, valid_regs)

RegSet_copyreversed(cur, abi, valid_mask, valid_regs) ==
    LET data == ExpandFrom(ZeroData, 0, 0, valid_mask, valid_regs)
    IN  [arch |-> GetArchForAbi(cur, abi),
         valid_mask |-> valid_mask,
         data |-> IF cur = ARCH_ARM64 /\ abi = PERF_SAMPLE_REGS_ABI_32
                  THEN [data EXCEPT ![PERF_REG_ARM64_PC] = data[PERF_REG_ARM_PC]]
                  ELSE data]

\* RegSet::RegSet(abi, valid_mask, valid_regs), cur being what
\* ScopedCurrentArch::GetCurrentArch() returns during the call.
RegSet(cur, abi, valid_mask, valid_regs) ==
    LET data == ExpandFrom(ZeroData, 0, 0, valid_mask, valid_regs)
    IN  [arch |-> GetArchForAbi(cur, abi),
         valid_mask |-> valid_mask,
         data |-> IF cur = ARCH_ARM64 /\ abi = PERF_SAMPLE_REGS_ABI_32
                  THEN [data EXCEPT ![PERF_REG_ARM_PC] = data[PERF_REG_ARM64_PC]]
                  ELSE data]

\* The outcome of a query: whether a CHECK failed, the returned bool, and the
\* content of the caller's *value after the call.
QueryResult(fatal, r, value) == [fatal |-> fatal, ret |-> r, value |-> value]

\* RegSet::GetRegValue(regno, value) on RegSet rs; value is *value before the call.
GetRegValue(rs, regno, value) ==
    IF ~(regno < 64) THEN QueryResult(TRUE, FALSE, value)
    ELSE IF regno \in rs.valid_mask THEN QueryResult(FALSE, TRUE, rs.data[regno])
    ELSE QueryResult(FALSE, FALSE, value)

GetSpRegValue_arm64sp(rs, value) ==
    CASE rs.arch = ARCH_X86_32 -> GetRegValue(rs, PERF_REG_X86_SP, value)
      [] rs.arch = ARCH_X86_64 -> GetRegValue(rs, PERF_REG_X86_SP, value)
      [] rs.arch = ARCH_ARM -> GetRegValue(rs, PERF_REG_ARM64_SP, value)
      [] rs.arch = ARCH_ARM64 -> GetRegValue(rs, PERF_REG_ARM64_SP, value)
      [] rs.arch = ARCH_RISCV64 -> GetRegValue(rs, PERF_REG_RISCV_SP, value)
      [] OTHER -> QueryResult(FALSE, FALSE, value)

\* RegSet::GetSpRegValue(value).
GetSpRegValue(rs, value) ==
    CASE rs.arch = ARCH_X86_32 -> GetRegValue(rs, PERF_REG_X86_SP, value)
      [] rs.arch = ARCH_X86_64 -> GetRegValue(rs, PERF_REG_X86_SP, value)
      [] rs.arch = ARCH_ARM -> GetRegValue(rs, PERF_REG_ARM_SP, value)
      [] rs.arch = ARCH_ARM64 -> GetRegValue(rs, PERF_REG_ARM64_SP, value)
      [] rs.arch = ARCH_RISCV64 -> GetRegValue(rs, PERF_REG_RISCV_SP, value)
      [] OTHER -> QueryResult(FALSE, FALSE, value)

\* RegSet::GetIpRegValue(value).
GetIpRegValue(rs, value) ==
    CASE rs.arch \in {ARCH_X86_64, ARCH_X86_32} -> GetRegValue(rs, PERF_REG_X86_IP, value)
      [] rs.arch = ARCH_ARM -> GetRegValue(rs, PERF_REG_ARM_PC, value)
      [] rs.arch = ARCH_ARM64 -> GetRegValue(rs, PERF_REG_ARM64_PC, value)
      [] rs.arch = ARCH_RISCV64 -> GetRegValue(rs, PERF_REG_RISCV_PC, value)
      [] OTHER -> QueryResult(FALSE, FALSE, value)

(* ------------------------------- inputs -------------------------------- *)

\* Sequences over S of length at most n.
SeqsUpTo(S, n) == UNION {[1 .. k -> S] : k \in 0 .. n}

NamePrefixes ==
    {<<>>, <<"x", "8", "6">>, <<"i", "6", "8", "6">>, <<"x", "8", "6", "_", "6", "4">>,
     <<"r", "i", "s", "c", "v", "6", "4">>, <<"a", "a", "r", "c", "h", "6", "4">>,
     <<"a", "r">>, <<"a", "r", "m">>, <<"a", "r", "m", "v">>, <<"a", "r", "m", "6", "4">>,
     <<"A", "R", "M">>, <<"X", "8", "6">>, <<"I", "6", "8", "6">>}

SuffixChars == {"v", "l", "0", "1", "7", "8", "9", " ", "-", "+"}

\* The architecture names handed to GetArchType.
ArchNames == {p \o s : p \in NamePrefixes, s \in SeqsUpTo(SuffixChars, MaxSuffix)}

\* The ABI tags of a sample: PERF_SAMPLE_REGS_ABI_NONE, _32 and _64.
AbiTags ==
    {PERF_SAMPLE_REGS_ABI_NONE, PERF_SAMPLE_REGS_ABI_32, PERF_SAMPLE_REGS_ABI_64}

\* The register indices the sample masks are drawn from: the SP and PC/IP index of
\* every architecture, and the highest bit.
MaskBits ==
    {PERF_REG_RISCV_PC, PERF_REG_RISCV_SP, PERF_REG_X86_SP, PERF_REG_X86_IP,
     PERF_REG_ARM_SP, PERF_REG_ARM_PC, PERF_REG_ARM64_SP, PERF_REG_ARM64_PC, 63}

\* The packed array of n values that starts at first and steps through 1..MaxVal.
PackedFrom(first, n) == [k \in 1 .. n |-> ((first + k - 2) % MaxVal) + 1]

\* A kernel payload: a mask of at most MaxRegs of the given bits and one packed
\* value per set bit.
PayloadsOver(bits) ==
    {[valid_mask |-> m, valid_regs |-> PackedFrom(first, Cardinality(m))] :
        m \in {x \in SUBSET bits : Cardinality(x) <= MaxRegs}, first \in 1 .. MaxVal}

SamplePayloads == PayloadsOver(MaskBits)

\* The payloads and host architectures of the specification with two sample records.
FramePayloads ==
    {p \in PayloadsOver({PERF_REG_ARM_PC, PERF_REG_ARM64_PC}) :
        p.valid_mask = {} \/ (Cardinality(p.valid_mask) = 2 /\ p.valid_regs[1] = 1)}

FrameHosts == {ARCH_ARM64, ARCH_X86_64, ARCH_UNSUPPORTED}

FrameQueryRegs == {PERF_REG_ARM_PC, PERF_REG_ARM64_PC} \cup (64 .. MaxRegno)

\* The register numbers the callers of GetRegValue ask for.
QueryRegs == MaskBits \cup {1, 14, 33, 62} \cup (64 .. MaxRegno)

\* What the caller's local holds when it passes its address to a query: a value
\* no register of a payload holds.
Poison == 0 - 1

(* ------------------------------- actions ------------------------------- *)

Init ==
    /\ current_arch = ARCH_UNSUPPORTED
    /\ regsets = <<>>
    /\ samples = <<>>
    /\ op = "none"
    /\ args = <<>>
    /\ ret = FALSE
    /\ out = Poison
    /\ aborted = FALSE

\* ScopedCurrentArch: the collaborator that detects the host sets current_arch.
SetCurrentArch(a) ==
    /\ ~aborted
    /\ current_arch' = a
    /\ op' = "ScopedCurrentArch"
    /\ args' = <<a>>
    /\ UNCHANGED <<regsets, samples, ret, out, aborted>>

\* Sample record r is decoded: RegSet(abi, valid_mask, valid_regs).
Construct(r, abi, p) ==
    /\ ~aborted
    /\ r \notin DOMAIN regsets
    /\ regsets' = regsets @@ (r :> RegSet(current_arch, abi, p.valid_mask, p.valid_regs))
    /\ samples' = samples @@ (r :> [host |-> current_arch, abi |-> abi,
                                    valid_mask |-> p.valid_mask,
                                    valid_regs |-> p.valid_regs])
    /\ op' = "RegSet"
    /\ args' = <<r>>
    /\ UNCHANGED <<current_arch, ret, out, aborted>>

\* A caller declares a local holding Poison, passes its address to the query and
\* keeps the outcome q: the returned bool in ret, the local in out.
Query(name, a, q) ==
    /\ op' = name
    /\ args' = a
    /\ aborted' = q.fatal
    /\ ret' = q.ret
    /\ out' = q.value
    /\ UNCHANGED <<current_arch, regsets, samples>>

CallGetRegValue(r, regno) ==
    /\ ~aborted
    /\ r \in DOMAIN regsets
    /\ Query("GetRegValue", <<r, regno>>, GetRegValue(regsets[r], regno, Poison))

CallGetSpRegValue_lazyarch(r) ==
    /\ ~aborted
    /\ r \in DOMAIN regsets
    /\ LET rs == [regsets[r] EXCEPT !.arch = GetArchForAbi(current_arch, samples[r].abi)]
           q == GetSpRegValue(rs, Poison)
       IN  /\ regsets' = [regsets EXCEPT ![r] = rs]
           /\ op' = "GetSpRegValue"
           /\ args' = <<r>>
           /\ aborted' = q.fatal
           /\ ret' = q.ret
           /\ out' = q.value
    /\ UNCHANGED <<current_arch, samples>>

CallGetSpRegValue(r) ==
    /\ ~aborted
    /\ r \in DOMAIN regsets
    /\ Query("GetSpRegValue", <<r>>, GetSpRegValue(regsets[r], Poison))

CallGetIpRegValue(r) ==
    /\ ~aborted
    /\ r \in DOMAIN regsets
    /\ Query("GetIpRegValue", <<r>>, GetIpRegValue(regsets[r], Poison))

\* One sample record; the host architecture is set before any sample is decoded.
Next ==
    \/ \E a \in ArchType : regsets = <<>> /\ SetCurrentArch(a)
    \/ \E abi \in AbiTags, p \in SamplePayloads : Construct("r1", abi, p)
    \/ \E regno \in QueryRegs : CallGetRegValue("r1", regno)
    \/ CallGetSpRegValue("r1")
    \/ CallGetIpRegValue("r1")

Spec == Init /\ [][Next]_vars

\* Two sample records; the current architecture may change at any time.
Records == {"r1", "r2"}

NextFrame ==
    \/ \E a \in FrameHosts : SetCurrentArch(a)
    \/ \E r \in Records, abi \in AbiTags, p \in FramePayloads : Construct(r, abi, p)
    \/ \E r \in Records, regno \in FrameQueryRegs : CallGetRegValue(r, regno)
    \/ \E r \in Records : CallGetSpRegValue(r)
    \/ \E r \in Records : CallGetIpRegValue(r)

SpecFrame == Init /\ [][NextFrame]_vars

(* ----------------------- the pure functions' callers ------------------- *)

\* The state before a call of a pure function: the caller holds the arguments.
InitCall(inputs) ==
    /\ current_arch = ARCH_UNSUPPORTED
    /\ regsets = <<>>
    /\ samples = <<>>
    /\ op = "none"
    /\ args \in inputs
    /\ ret = FALSE
    /\ out = Poison
    /\ aborted = FALSE

CallGetArchType ==
    /\ op = "none"
    /\ Len(args) = 1
    /\ op' = "GetArchType"
    /\ ret' = GetArchType(args[1])
    /\ UNCHANGED <<current_arch, regsets, samples, args, out, aborted>>

CallGetArchForAbi ==
    /\ op = "none"
    /\ Len(args) = 2
    /\ op' = "GetArchForAbi"
    /\ ret' = GetArchForAbi(args[1], args[2])
    /\ UNCHANGED <<current_arch, regsets, samples, args, out, aborted>>

InitArch ==
    InitCall({<<arch>> : arch \in ArchNames}
             \cup {<<machine_arch, abi>> : machine_arch \in ArchType, abi \in 0 .. MaxAbi})

NextArch == CallGetArchType \/ CallGetArchForAbi

SpecArch == InitArch /\ [][NextArch]_vars

CallGetSupportedRegMask ==
    /\ op = "none"
    /\ Len(args) = 1
    /\ op' = "GetSupportedRegMask"
    /\ ret' = GetSupportedRegMask(args[1])
    /\ UNCHANGED <<current_arch, regsets, samples, args, out, aborted>>

\* A failed CHECK aborts the process.
CallGetRegName ==
    /\ op = "none"
    /\ Len(args) = 2
    /\ op' = "GetRegName"
    /\ ret' = GetRegName(args[1], args[2]).name
    /\ aborted' = GetRegName(args[1], args[2]).fatal
    /\ UNCHANGED <<current_arch, regsets, samples, args, out>>

InitRegs ==
    InitCall({<<arch>> : arch \in ArchType}
             \cup {<<regno, arch>> : regno \in 0 .. MaxRegName, arch \in ArchType})

NextRegs == CallGetSupportedRegMask \/ CallGetRegName

SpecRegs == InitRegs /\ [][NextRegs]_vars

(* ============================== claims ================================= *)

(* ------------------------------ SpecArch ------------------------------- *)

\* The resolution table of the documentation, combination by combination.
DocumentedArchForAbi(host, abi) ==
    CASE host = ARCH_X86_64 /\ abi = 1 -> ARCH_X86_32
      [] host = ARCH_ARM64 /\ abi = 1 -> ARCH_ARM
      [] host = ARCH_X86_32 /\ abi = 2 -> ARCH_X86_64
      [] host = ARCH_ARM /\ abi = 2 -> ARCH_ARM64
      [] OTHER -> host

\* C2: GetArchForAbi maps (X86_64, 32-bit) to X86_32, (ARM64, 32-bit) to ARM,
\* (X86_32, 64-bit) to X86_64 and (ARM, 64-bit) to ARM64, and returns the host
\* architecture unchanged for every other host and ABI tag.
C2_ArchForAbi ==
    op = "GetArchForAbi" => ret = DocumentedArchForAbi(args[1], args[2])

\* GetArchForAbi(ARM, 64-bit) has returned ARM64.
C2_Witness ==
    /\ op = "GetArchForAbi"
    /\ args = <<ARCH_ARM, 2>>
    /\ ret = ARCH_ARM64

\* The length of the longest prefix of t made of characters of S.
LeadRun(t, S) ==
    CHOOSE k \in 0 .. Len(t) :
        /\ \A i \in 1 .. k : t[i] \in S
        /\ k = Len(t) \/ t[k + 1] \notin S

DropFirst(t, k) == SubSeq(t, k + 1, Len(t))

RECURSIVE Pow10(_)
Pow10(n) == IF n = 0 THEN 1 ELSE 10 * Pow10(n - 1)

RECURSIVE PlaceSum(_, _, _)
PlaceSum(t, n, i) ==
    IF i > n THEN 0
    ELSE (CHOOSE d \in 0 .. 9 : DigitChar[d + 1] = t[i]) * Pow10(n - i) + PlaceSum(t, n, i + 1)

\* The number its leading decimal digits write (0 when there is none).
DigitsValue(t) == PlaceSum(t, LeadRun(t, {DigitChar[d] : d \in 1 .. 10}), 1)

\* The decimal number that follows the 'v' of an "armv..." name: white space, an
\* optional sign and decimal digits.
VersionNumber(name) ==
    LET rest == DropFirst(name, 4)
        t == DropFirst(rest, LeadRun(rest, {" ", "\t", "\n"}))
    IN  IF t # <<>> /\ t[1] = "-" THEN 0 - DigitsValue(DropFirst(t, 1))
        ELSE IF t # <<>> /\ t[1] = "+" THEN DigitsValue(DropFirst(t, 1))
        ELSE DigitsValue(t)

DocumentedArchType(name) ==
    CASE name \in {<<"x", "8", "6">>, <<"i", "6", "8", "6">>} -> ARCH_X86_32
      [] name = <<"x", "8", "6", "_", "6", "4">> -> ARCH_X86_64
      [] name = <<"r", "i", "s", "c", "v", "6", "4">> -> ARCH_RISCV64
      [] name = <<"a", "a", "r", "c", "h", "6", "4">> -> ARCH_ARM64
      [] Len(name) >= 3 /\ <<name[1], name[2], name[3]>> = <<"a", "r", "m">> ->
            IF Len(name) >= 4 /\ name[4] = "v" /\ VersionNumber(name) >= 8
            THEN ARCH_ARM64
            ELSE ARCH_ARM
      [] OTHER -> ARCH_UNSUPPORTED

\* C7: GetArchType maps "x86" and "i686" to X86_32, "x86_64" to X86_64, "riscv64"
\* to RISCV64, "aarch64" to ARM64, a name beginning with "arm" to ARM unless its
\* 4th character is 'v' and the decimal number that follows is >= 8 (then ARM64),
\* and every other name to UNSUPPORTED, as an ordinary return value.
C7_ArchType ==
    op = "GetArchType" => ~aborted /\ ret = DocumentedArchType(args[1])

\* GetArchType("armv8l") has returned ARM64.
C7_Witness ==
    /\ op = "GetArchType"
    /\ args[1] = <<"a", "r", "m", "v", "8", "l">>
    /\ ret = ARCH_ARM64

(* ------------------------------ SpecRegs ------------------------------- *)

\* The architecture's maximum register index, one past its last register.
ArchMax(arch) ==
    CASE arch = ARCH_X86_32 -> PERF_REG_X86_32_MAX
      [] arch = ARCH_X86_64 -> PERF_REG_X86_64_MAX
      [] arch = ARCH_ARM -> PERF_REG_ARM_MAX
      [] arch = ARCH_ARM64 -> PERF_REG_ARM64_MAX
      [] arch = ARCH_RISCV64 -> PERF_REG_RISCV_MAX
      [] OTHER -> 0

\* The bits the mask of an architecture leaves out below its maximum.
ExcludedRegs(arch) ==
    IF arch \in {ARCH_X86_32, ARCH_X86_64}
    THEN {PERF_REG_X86_DS, PERF_REG_X86_ES, PERF_REG_X86_FS, PERF_REG_X86_GS}
    ELSE {}

\* C8: GetSupportedRegMask(arch) is the contiguous range of bits below the
\* architecture's maximum, with exactly the bits of DS, ES, FS and GS cleared for
\* X86_32 and X86_64 and none cleared for ARM, ARM64 and RISCV64; it is 0 for
\* UNSUPPORTED.
C8_SupportedRegMask ==
    op = "GetSupportedRegMask" =>
        /\ ret \subseteq 0 .. 63
        /\ \A i \in 0 .. 63 :
              i \in ret <=> (i < ArchMax(args[1]) /\ i \notin ExcludedRegs(args[1]))
        /\ args[1] = ARCH_UNSUPPORTED => ret = {}

\* GetSupportedRegMask(X86_64) has returned a mask with R15 and SS in it and
\* without DS, ES, FS and GS.
C8_Witness ==
    /\ op = "GetSupportedRegMask"
    /\ args = <<ARCH_X86_64>>
    /\ {PERF_REG_X86_SS, PERF_REG_X86_R15} \subseteq ret
    /\ ret \cap {PERF_REG_X86_DS, PERF_REG_X86_ES, PERF_REG_X86_FS, PERF_REG_X86_GS} = {}

\* The documented names, by register index (the sequence's k-th name is that of
\* index k - 1).
DocumentedX86Names ==
    <<"ax", "bx", "cx", "dx", "si", "di", "bp", "sp", "ip", "flags", "cs", "ss",
      "ds", "es", "fs", "gs",
      "r8", "r9", "r10", "r11", "r12", "r13", "r14", "r15">>

DocumentedArmNames ==
    <<"r0", "r1", "r2", "r3", "r4", "r5", "r6", "r7", "r8", "r9", "r10",
      "fp", "ip", "sp", "lr", "pc">>

DocumentedArm64Names ==
    <<"r0", "r1", "r2", "r3", "r4", "r5", "r6", "r7", "r8", "r9",
      "r10", "r11", "r12", "r13", "r14", "r15", "r16", "r17", "r18", "r19",
      "r20", "r21", "r22", "r23", "r24", "r25", "r26", "r27", "r28", "r29",
      "lr", "sp", "pc">>

DocumentedRiscvNames ==
    <<"pc", "ra", "sp", "gp", "tp", "t0", "t1", "t2", "s0", "s1",
      "a0", "a1", "a2", "a3", "a4", "a5", "a6", "a7",
      "s2", "s3", "s4", "s5", "s6", "s7", "s8", "s9", "s10", "s11",
      "t3", "t4", "t5", "t6">>

DocumentedNames(arch) ==
    CASE arch \in {ARCH_X86_32, ARCH_X86_64} -> DocumentedX86Names
      [] arch = ARCH_ARM -> DocumentedArmNames
      [] arch = ARCH_ARM64 -> DocumentedArm64Names
      [] arch = ARCH_RISCV64 -> DocumentedRiscvNames

\* C5: for every architecture but UNSUPPORTED and every register index whose bit
\* is set in GetSupportedRegMask(arch), GetRegName(index, arch) returns without a
\* fatal error, and returns the documented name.
C5_RegNameTotal ==
    (/\ op = "GetRegName"
     /\ args[2] # ARCH_UNSUPPORTED
     /\ args[1] \in GetSupportedRegMask(args[2]))
        => /\ ~aborted
           /\ ret = DocumentedNames(args[2])[args[1] + 1]

\* GetRegName(R15, X86_64) has returned "r15".
C5_Witness ==
    /\ op = "GetRegName"
    /\ args = <<PERF_REG_X86_R15, ARCH_X86_64>>
    /\ ~aborted
    /\ ret = "r15"

\* The register indices GetRegName(_, ARM) resolves as ARM registers: R0..R10 and
\* the named table fp, ip, sp, lr, pc.
ArmResolved ==
    (PERF_REG_ARM_R0 .. PERF_REG_ARM_R10)
        \cup {PERF_REG_ARM_FP, PERF_REG_ARM_IP, PERF_REG_ARM_SP, PERF_REG_ARM_LR,
              PERF_REG_ARM_PC}

\* C6 as stated: for ARM, GetRegName on an index that is neither in R0..R10 nor in
\* the ARM named table returns "unknown" and never terminates the process.
C6_ArmUnknown ==
    (op = "GetRegName" /\ args[2] = ARCH_ARM /\ args[1] \notin ArmResolved)
        => ~aborted /\ ret = "unknown"

\* C6 as amended: for ARM, an index that is neither in R0..R10 nor in the ARM named
\* table is resolved as an ARM64 index: "r16".."r29" for 16..29, "lr", "sp", "pc"
\* for 30, 31, 32, and a fatal error for every other index; "unknown" is never
\* returned.
C6_ArmFallsToArm64 ==
    (op = "GetRegName" /\ args[2] = ARCH_ARM /\ args[1] \notin ArmResolved)
        => /\ ret # "unknown"
           /\ aborted <=> args[1] >= PERF_REG_ARM64_MAX
           /\ ~aborted => ret = DocumentedArm64Names[args[1] + 1]

\* GetRegName(16, ARM) has returned "r16".
C6_Witness ==
    /\ op = "GetRegName"
    /\ args = <<PERF_REG_ARM_MAX, ARCH_ARM>>
    /\ ~aborted
    /\ ret = "r16"

(* ------------------------- Spec and SpecFrame -------------------------- *)

\* The packed entry of sample s for register index i: the entry whose position is
\* the number of set bits of valid_mask below i; 0 when bit i is not set.
Packed(s, i) ==
    IF i \in s.valid_mask
    THEN s.valid_regs[Cardinality({k \in s.valid_mask : k < i}) + 1]
    ELSE 0

\* Sample s was decoded with ARM64 as the current architecture and a 32-bit ABI tag.
Arm64Compat(s) == s.host = ARCH_ARM64 /\ s.abi = 1

\* The contents of a caller's local the queries are tried with.
PriorValues == {Poison, 0, MaxVal}

\* GetRegValue(i) on the RegSet of sample s succeeds iff bit i of the sample's
\* valid_mask is set, then yields expected, and else leaves the local as it was.
RegValueIs(rs, s, i, expected) ==
    \A v \in PriorValues :
        LET q == GetRegValue(rs, i, v)
        IN  /\ ~q.fatal
            /\ q.ret <=> i \in s.valid_mask
            /\ q.ret => q.value = expected
            /\ ~q.ret => q.value = v

\* The same of the call the caller has just made.
CalledRegValueIs(r, i, expected) ==
    (op = "GetRegValue" /\ args = <<r, i>>) =>
        /\ ~aborted
        /\ ret <=> i \in samples[r].valid_mask
        /\ ret => out = expected
        /\ ~ret => out = Poison

\* C1 as stated: after construction GetRegValue(i), i in 0..63, succeeds iff bit i
\* of valid_mask is set, returns the packed entry whose position is the number of
\* set bits below i, and leaves the caller's value unmodified when it fails.
C1_RegValueIsPacked ==
    \A r \in DOMAIN regsets : \A i \in 0 .. 63 :
        /\ RegValueIs(regsets[r], samples[r], i, Packed(samples[r], i))
        /\ CalledRegValueIs(r, i, Packed(samples[r], i))

\* What GetRegValue(i) yields: the packed entry of bit i, but for the ARM PC index
\* of a sample decoded with ARM64 as current architecture and a 32-bit ABI tag,
\* where it is what the expansion left in the ARM64 PC slot.
ExpectedRegValue(s, i) ==
    IF Arm64Compat(s) /\ i = PERF_REG_ARM_PC
    THEN Packed(s, PERF_REG_ARM64_PC)
    ELSE Packed(s, i)

\* C1 as amended: after construction GetRegValue(i), i in 0..63, succeeds iff bit i
\* of valid_mask is set and leaves the caller's value unmodified when it fails;
\* when it succeeds it returns the packed entry whose position is the number of
\* set bits below i, except that for a RegSet constructed with current
\* architecture ARM64 and a 32-bit ABI tag, index 15 (the ARM PC) returns the
\* value of the ARM64 PC slot: the packed entry of bit 32, or 0 if bit 32 is clear.
C1_RegValueIsPackedButArmPc ==
    \A r \in DOMAIN regsets : \A i \in 0 .. 63 :
        /\ RegValueIs(regsets[r], samples[r], i, ExpectedRegValue(samples[r], i))
        /\ CalledRegValueIs(r, i, ExpectedRegValue(samples[r], i))

\* GetRegValue has returned the second packed entry, which differs from the first,
\* for the higher of two set bits.
C1_Witness ==
    /\ op = "GetRegValue"
    /\ ret
    /\ Cardinality(samples["r1"].valid_mask) = 2
    /\ \E k \in samples["r1"].valid_mask : k < args[2]
    /\ samples["r1"].valid_regs[1] # samples["r1"].valid_regs[2]
    /\ out = samples["r1"].valid_regs[2]

SpIndex(arch) ==
    CASE arch \in {ARCH_X86_32, ARCH_X86_64} -> PERF_REG_X86_SP
      [] arch = ARCH_ARM -> PERF_REG_ARM_SP
      [] arch = ARCH_ARM64 -> PERF_REG_ARM64_SP
      [] arch = ARCH_RISCV64 -> PERF_REG_RISCV_SP

IpIndex(arch) ==
    CASE arch \in {ARCH_X86_32, ARCH_X86_64} -> PERF_REG_X86_IP
      [] arch = ARCH_ARM -> PERF_REG_ARM_PC
      [] arch = ARCH_ARM64 -> PERF_REG_ARM64_PC
      [] arch = ARCH_RISCV64 -> PERF_REG_RISCV_PC

\* Outcome q of a query made with v in the local is that of register idx of rs.
OutcomeIsReg(q, rs, idx, v) ==
    /\ ~q.fatal
    /\ q.ret <=> idx \in rs.valid_mask
    /\ q.ret => q.value = rs.data[idx]
    /\ ~q.ret => q.value = v

\* Outcome q is a plain failure: false, the local as it was.
OutcomeIsFailure(q, v) == ~q.fatal /\ ~q.ret /\ q.value = v

\* C3: GetSpRegValue and GetIpRegValue return false when the RegSet's arch is
\* UNSUPPORTED; for every other arch they return the value of the architecture's
\* stack-pointer register (x86 SP, ARM SP, ARM64 SP, RISCV SP) and of its
\* instruction-pointer register (x86 IP, ARM PC, ARM64 PC, RISCV PC) when that
\* register's valid_mask bit is set, and false when it is unset.
C3_SpIpByArch ==
    \A r \in DOMAIN regsets :
        LET rs == regsets[r]
            called == [fatal |-> aborted, ret |-> ret, value |-> out]
        IN  /\ \A v \in PriorValues :
                  IF rs.arch = ARCH_UNSUPPORTED
                  THEN /\ OutcomeIsFailure(GetSpRegValue(rs, v), v)
                       /\ OutcomeIsFailure(GetIpRegValue(rs, v), v)
                  ELSE /\ OutcomeIsReg(GetSpRegValue(rs, v), rs, SpIndex(rs.arch), v)
                       /\ OutcomeIsReg(GetIpRegValue(rs, v), rs, IpIndex(rs.arch), v)
            /\ (op = "GetSpRegValue" /\ args = <<r>>) =>
                  IF rs.arch = ARCH_UNSUPPORTED
                  THEN OutcomeIsFailure(called, Poison)
                  ELSE OutcomeIsReg(called, rs, SpIndex(rs.arch), Poison)
            /\ (op = "GetIpRegValue" /\ args = <<r>>) =>
                  IF rs.arch = ARCH_UNSUPPORTED
                  THEN OutcomeIsFailure(called, Poison)
                  ELSE OutcomeIsReg(called, rs, IpIndex(rs.arch), Poison)

\* GetSpRegValue on an ARM RegSet has returned the packed entry of the ARM SP bit.
C3_Witness ==
    /\ op = "GetSpRegValue"
    /\ ret
    /\ regsets["r1"].arch = ARCH_ARM
    /\ out = Packed(samples["r1"], PERF_REG_ARM_SP)
    /\ out >= 1

\* C4: when the current architecture is ARM64 and the sample's ABI tag is 32-bit,
\* the constructed RegSet has data[ARM PC index] = data[ARM64 PC index], the
\* latter being what the sparse-to-dense expansion left in the ARM64 PC slot.
C4_ArmPcIsArm64Pc ==
    \A r \in DOMAIN regsets :
        Arm64Compat(samples[r]) =>
            /\ regsets[r].data[PERF_REG_ARM_PC] = regsets[r].data[PERF_REG_ARM64_PC]
            /\ regsets[r].data[PERF_REG_ARM64_PC] = Packed(samples[r], PERF_REG_ARM64_PC)

\* A RegSet was constructed under ARM64 with a 32-bit ABI tag from a payload whose
\* entries for bits 15 and 32 differ, and its slot 15 holds the entry of bit 32.
C4_Witness ==
    /\ "r1" \in DOMAIN regsets
    /\ Arm64Compat(samples["r1"])
    /\ samples["r1"].valid_mask = {PERF_REG_ARM_PC, PERF_REG_ARM64_PC}
    /\ samples["r1"].valid_regs[1] # samples["r1"].valid_regs[2]
    /\ regsets["r1"].data[PERF_REG_ARM_PC] = samples["r1"].valid_regs[2]

\* C10: when the current architecture is ARM64, the sample's ABI tag is 32-bit and
\* the ARM64 PC bit of valid_mask is set, GetIpRegValue on the constructed RegSet
\* succeeds and returns the sampled program counter.
C10_CompatIpIsSampledPc ==
    \A r \in DOMAIN regsets :
        (/\ op = "GetIpRegValue"
         /\ args = <<r>>
         /\ Arm64Compat(samples[r])
         /\ PERF_REG_ARM64_PC \in samples[r].valid_mask)
            => ret /\ out = Packed(samples[r], PERF_REG_ARM64_PC)

\* C9: once a RegSet is constructed, its arch, valid_mask and data are left
\* unchanged by every later GetRegValue, GetSpRegValue and GetIpRegValue call, by
\* the construction of other RegSets and by every later change of the current
\* architecture; its arch stays the one resolved from the current architecture
\* and the ABI tag at construction.
C9_Immutable ==
    [][\A r \in DOMAIN regsets :
          /\ r \in DOMAIN regsets'
          /\ regsets'[r] = regsets[r]
          /\ regsets'[r].arch = GetArchForAbi(samples[r].host, samples[r].abi)]_vars

\* After r1 and then other calls, the current architecture has changed to one that
\* would resolve r1's ABI tag differently, r2 has been constructed, a query was
\* made on r1, and r1's arch is still the one resolved at its construction.
C9_Witness ==
    /\ DOMAIN regsets = {"r1", "r2"}
    /\ op = "GetIpRegValue"
    /\ args = <<"r1">>
    /\ samples["r2"].host # samples["r1"].host
    /\ current_arch # samples["r1"].host
    /\ regsets["r1"].arch = GetArchForAbi(samples["r1"].host, samples["r1"].abi)
    /\ regsets["r1"].arch # GetArchForAbi(current_arch, samples["r1"].abi)

====
